---- MODULE Spec2Model ----
(***************************************************************************)
(* Page planning of the blog's build step (gatsby-node createPages).       *)
(* The content query resolves with { errors, data }; the then-callback     *)
(* either rejects with the errors or walks the entries in order and        *)
(* registers one page per 'blog' / 'reference' entry via createPage.       *)
(***************************************************************************)
EXTENDS Integers, Sequences, FiniteSets

\* ---------------------------------------------------------------- bounds
MaxLen == 3      \* longest query result that is enumerated
MaxDate == 3     \* dates are 1..MaxDate

\* ----------------------------------------------------- JavaScript values
\* A frontmatter field is a string, undefined or null; result.errors is
\* undefined or an array.
Undefined == [t |-> "undefined"]
Null == [t |-> "null"]
Str(s) == [t |-> "string", v |-> s]
Arr(a) == [t |-> "array", v |-> a]

\* Conversion of a value inside a template literal `${v}`.
ToStringNoUndefined(v) ==
  IF v.t = "string" THEN v.v ELSE ""

ToString(v) ==
  IF v.t = "string" THEN v.v
  ELSE IF v.t = "undefined" THEN "undefined"
  ELSE "null"

\* `if (v)` for the values result.errors can hold: undefined is falsy,
\* an array of errors is truthy.
TruthyNever(v) == FALSE

Truthy(v) == v # Undefined /\ v # Null

\* `v == 'literal'` (loose equality against a string literal): only the
\* very same string is equal; undefined and null are not.
LooseEq(v, lit) == v = Str(lit)

\* path.resolve(relative) against the build's working directory.
Cwd == "/site"

PathResolve(p) == Cwd \o "/" \o p

blogPostTemplate == PathResolve("src/components/blog/blog-post.js")

referencePageTemplate == PathResolve("src/components/reference-page/index.js")

\* ------------------------------------------------------------ the inputs
\* The frontmatter the query selects: date, path, title, type, subject.
\* A blog entry has a path (or lacks it), a reference entry has a subject
\* (or lacks it), and 'draft' stands for any other type.
Dates == 1..MaxDate

Kinds ==
  { [path |-> Str("/a"), type |-> Str("blog"), subject |-> Undefined],
    [path |-> Str("/b"), type |-> Str("blog"), subject |-> Undefined],
    [path |-> Undefined, type |-> Str("blog"), subject |-> Undefined],
    [path |-> Undefined, type |-> Str("reference"), subject |-> Str("js")],
    [path |-> Undefined, type |-> Str("reference"), subject |-> Undefined],
    [path |-> Undefined, type |-> Str("reference"), subject |-> Null],
    [path |-> Undefined, type |-> Str("draft"), subject |-> Undefined] }

Frontmatters ==
  { [date |-> d, path |-> k.path, title |-> Str("post"), type |-> k.type,
     subject |-> k.subject] : d \in Dates, k \in Kinds }

\* An edge of the result: { node: { frontmatter } }.
Edges == { [node |-> [frontmatter |-> fm]] : fm \in Frontmatters }

\* sort: { order: DESC, fields: [frontmatter___date] }
SortedDesc(s) ==
  \A k \in 1..(Len(s) - 1) :
    s[k].node.frontmatter.date >= s[k + 1].node.frontmatter.date

SeqsUpTo(S, n) == UNION { [1..m -> S] : m \in 0..n }

QueryResults == { s \in SeqsUpTo(Edges, MaxLen) : SortedDesc(s) }

\* result.errors: absent, or the list of errors of the failed query.
ErrorValues == { Undefined, Arr(<<"GraphQLError">>) }

\* ----------------------------------------------------------------- state
VARIABLES
  pc,         \* position of createPages: "pending", "resolved", "forEach",
              \* "fulfilled", "rejected"
  posts,      \* result.data.allMarkdownRemark.edges
  errors,     \* result.errors
  i,          \* index of the forEach iteration (0-based, as in the code)
  pages,      \* the arguments of the createPage calls made so far, in order
  rejection,  \* the value the returned promise rejected with
  indexPosts,    \* index page: data.allMarkdownRemark.edges
  selectedTags,  \* index page: state.selectedTags of useReducer
  action,        \* index page: the action last dispatched
  listed         \* index page: the posts rendered as BlogPostPreview

plannerVars == <<pc, posts, errors, i, pages, rejection>>

indexVars == <<indexPosts, selectedTags, action, listed>>

vars == <<plannerVars, indexVars>>

\* posts[i] of the code (0-based).
At(ps, k) == ps[k + 1]

\* ------------------------------------------------------------ operations
createBlogPageNoWrap(ps, post, k) ==
  LET previous == IF k < Len(ps) - 1
                  THEN At(ps, k + 1).node.frontmatter
                  ELSE At(ps, Len(ps) - 1).node.frontmatter
      next == IF k > 0
              THEN At(ps, k - 1).node.frontmatter
              ELSE At(ps, 0).node.frontmatter
  IN  [path |-> post.node.frontmatter.path,
       component |-> blogPostTemplate,
       context |-> [previous |-> previous, next |-> next]]

createBlogPageSwapped(ps, post, k) ==
  LET previous == IF k > 0
                  THEN At(ps, k - 1).node.frontmatter
                  ELSE At(ps, Len(ps) - 1).node.frontmatter
      next == IF k < Len(ps) - 1
              THEN At(ps, k + 1).node.frontmatter
              ELSE At(ps, 0).node.frontmatter
  IN  [path |-> post.node.frontmatter.path,
       component |-> blogPostTemplate,
       context |-> [previous |-> previous, next |-> next]]

createBlogPageFirstPath(ps, post, k) ==
  LET previous == IF k < Len(ps) - 1
                  THEN At(ps, k + 1).node.frontmatter
                  ELSE At(ps, 0).node.frontmatter
      next == IF k > 0
              THEN At(ps, k - 1).node.frontmatter
              ELSE At(ps, Len(ps) - 1).node.frontmatter
  IN  [path |-> At(ps, 0).node.frontmatter.path,
       component |-> blogPostTemplate,
       context |-> [previous |-> previous, next |-> next]]

createBlogPageBlogsOnly(ps, post, k) ==
  LET blogs == { j \in 0..(Len(ps) - 1) :
                   LooseEq(At(ps, j).node.frontmatter.type, "blog") }
      later == { j \in blogs : j > k }
      earlier == { j \in blogs : j < k }
      lowest(S) == CHOOSE j \in S : \A m \in S : j <= m
      highest(S) == CHOOSE j \in S : \A m \in S : j >= m
      previous == IF later # {}
                  THEN At(ps, lowest(later)).node.frontmatter
                  ELSE At(ps, lowest(blogs)).node.frontmatter
      next == IF earlier # {}
              THEN At(ps, highest(earlier)).node.frontmatter
              ELSE At(ps, highest(blogs)).node.frontmatter
  IN  [path |-> post.node.frontmatter.path,
       component |-> blogPostTemplate,
       context |-> [previous |-> previous, next |-> next]]

createBlogPage(ps, post, k) ==
  LET previous == IF k < Len(ps) - 1
                  THEN At(ps, k + 1).node.frontmatter
                  ELSE At(ps, 0).node.frontmatter
      next == IF k > 0
              THEN At(ps, k - 1).node.frontmatter
              ELSE At(ps, Len(ps) - 1).node.frontmatter
  IN  [path |-> post.node.frontmatter.path,
       component |-> blogPostTemplate,
       context |-> [previous |-> previous, next |-> next]]

createReferencePageBlogTemplate(post) ==
  [path |-> Str("/reference/" \o ToString(post.node.frontmatter.subject)),
   subject |-> post.node.frontmatter.subject,
   component |-> blogPostTemplate]

createReferencePageBareRoute(post) ==
  [path |-> Str(ToString(post.node.frontmatter.subject)),
   subject |-> post.node.frontmatter.subject,
   component |-> referencePageTemplate]

createReferencePage(post) ==
  [path |-> Str("/reference/" \o ToString(post.node.frontmatter.subject)),
   subject |-> post.node.frontmatter.subject,
   component |-> referencePageTemplate]

\* The createPage calls of one forEach iteration, in order.
forEachBodyElse(ps, k) ==
  LET post == At(ps, k)
  IN  IF LooseEq(post.node.frontmatter.type, "blog")
      THEN <<createBlogPage(ps, post, k)>>
      ELSE <<createReferencePage(post)>>

forEachBodyReversed(ps, k) ==
  LET r == Len(ps) - 1 - k
      post == At(ps, r)
  IN  (IF LooseEq(post.node.frontmatter.type, "blog")
       THEN <<createBlogPage(ps, post, r)>> ELSE <<>>)
      \o
      (IF LooseEq(post.node.frontmatter.type, "reference")
       THEN <<createReferencePage(post)>> ELSE <<>>)

forEachBody(ps, k) ==
  LET post == At(ps, k)
  IN  (IF LooseEq(post.node.frontmatter.type, "blog")
       THEN <<createBlogPage(ps, post, k)>> ELSE <<>>)
      \o
      (IF LooseEq(post.node.frontmatter.type, "reference")
       THEN <<createReferencePage(post)>> ELSE <<>>)

\* ---------------------------------------------------------------- actions
\* createPages has been called and the query is in flight.
PlannerInit ==
  /\ pc = "pending"
  /\ posts = <<>>
  /\ errors = Undefined
  /\ i = 0
  /\ pages = <<>>
  /\ rejection = Undefined

\* The index page is not rendered during the build step.
IndexIdle ==
  /\ indexPosts = <<>>
  /\ selectedTags = <<>>
  /\ action = Undefined
  /\ listed = <<>>

Init == PlannerInit /\ IndexIdle

GraphqlResolveEager ==
  /\ pc = "pending"
  /\ \E e \in ErrorValues, ps \in QueryResults :
       /\ errors' = e
       /\ posts' = ps
       /\ pages' = IF Len(ps) > 0 THEN forEachBody(ps, 0) ELSE <<>>
  /\ pc' = "resolved"
  /\ UNCHANGED <<i, rejection, indexVars>>

\* graphql(...) settles: the promise resolves with { errors, data }.
GraphqlResolve ==
  /\ pc = "pending"
  /\ \E e \in ErrorValues, ps \in QueryResults :
       /\ errors' = e
       /\ posts' = ps
  /\ pc' = "resolved"
  /\ UNCHANGED <<i, pages, rejection, indexVars>>

\* .then(result => { if (result.errors) return Promise.reject(result.errors)
ThenReject ==
  /\ pc = "resolved"
  /\ Truthy(errors)
  /\ pc' = "rejected"
  /\ rejection' = errors
  /\ UNCHANGED <<posts, errors, i, pages, indexVars>>

\* ... const posts = result.data.allMarkdownRemark.edges; posts.forEach(
ThenForEach ==
  /\ pc = "resolved"
  /\ ~Truthy(errors)
  /\ pc' = "forEach"
  /\ i' = 0
  /\ UNCHANGED <<posts, errors, pages, rejection, indexVars>>

ForEachStepWriteBack ==
  /\ pc = "forEach"
  /\ i < Len(posts)
  /\ pages' = pages \o forEachBody(posts, i)
  /\ posts' = IF forEachBody(posts, i) = <<>> THEN posts
              ELSE [posts EXCEPT ![i + 1].node.frontmatter.path =
                      forEachBody(posts, i)[1].path]
  /\ i' = i + 1
  /\ UNCHANGED <<pc, errors, rejection, indexVars>>

\* One iteration of posts.forEach((post, i) => { ... }).
ForEachStep ==
  /\ pc = "forEach"
  /\ i < Len(posts)
  /\ pages' = pages \o forEachBody(posts, i)
  /\ i' = i + 1
  /\ UNCHANGED <<pc, posts, errors, rejection, indexVars>>

\* forEach has visited every entry; the callback returns.
ForEachDone ==
  /\ pc = "forEach"
  /\ i = Len(posts)
  /\ pc' = "fulfilled"
  /\ UNCHANGED <<posts, errors, i, pages, rejection, indexVars>>

Next ==
  \/ GraphqlResolve
  \/ ThenReject
  \/ ThenForEach
  \/ ForEachStep
  \/ ForEachDone

Spec == Init /\ [][Next]_vars

TypeOK ==
  /\ pc \in {"pending", "resolved", "forEach", "fulfilled", "rejected"}
  /\ i \in 0..Len(posts)
  /\ Len(posts) <= MaxLen

\* ------------------------------------- the planner on an unsorted result
\* The planner itself never looks at the dates: the same callback run on a
\* result whose order the query layer did not establish.
AnyOrderResults == SeqsUpTo(Edges, MaxLen)

GraphqlResolveAnyOrder ==
  /\ pc = "pending"
  /\ \E e \in ErrorValues, ps \in AnyOrderResults :
       /\ errors' = e
       /\ posts' = ps
  /\ pc' = "resolved"
  /\ UNCHANGED <<i, pages, rejection, indexVars>>

NextAnyOrder ==
  \/ GraphqlResolveAnyOrder
  \/ ThenReject
  \/ ThenForEach
  \/ ForEachStep
  \/ ForEachDone

SpecAnyOrder == Init /\ [][NextAnyOrder]_vars

\* ------------------------------------------------------- the index page
MaxPosts == 2       \* longest list of posts on the index page
MaxSelected == 3    \* longest selectedTags that is explored

Tags == {"js", "react", "css"}

\* frontmatter.tags of a post.
TagLists == { <<>>, <<"js">>, <<"js", "react">>, <<"css", "js">> }

Titles == {"", "Hello"}

IndexEdges ==
  { [node |-> [frontmatter |-> [title |-> t, tags |-> tl]]] :
      t \in Titles, tl \in TagLists }

IndexResults == SeqsUpTo(IndexEdges, MaxPosts)

\* The actions TagSelector can dispatch; 'reset' stands for any other type.
Actions == [type : {"add", "remove", "reset"}, payload : Tags]

Min(a, b) == IF a < b THEN a ELSE b

Max(a, b) == IF a > b THEN a ELSE b

\* Array.prototype.indexOf: 0-based index of the first occurrence, or -1.
indexOfLast(arr, x) ==
  IF \E k \in 1..Len(arr) : arr[k] = x
  THEN (CHOOSE k \in 1..Len(arr) :
          arr[k] = x /\ \A j \in (k + 1)..Len(arr) : arr[j] # x) - 1
  ELSE -1

indexOf(arr, x) ==
  IF \E k \in 1..Len(arr) : arr[k] = x
  THEN (CHOOSE k \in 1..Len(arr) :
          arr[k] = x /\ \A j \in 1..(k - 1) : arr[j] # x) - 1
  ELSE -1

\* Array.prototype.slice(start, end): negative indices count from the end,
\* both are clamped to 0..length.
RelativeIndex(n, k) == IF k < 0 THEN Max(n + k, 0) ELSE Min(k, n)

slice(arr, start, end) ==
  LET from == RelativeIndex(Len(arr), start)
      to == RelativeIndex(Len(arr), end)
  IN  IF from >= to THEN <<>> ELSE SubSeq(arr, from + 1, to)

\* slice(start) with end omitted.
sliceFrom(arr, start) == slice(arr, start, Len(arr))

\* Array.prototype.includes.
includes(arr, x) == \E k \in 1..Len(arr) : arr[k] = x

reducerPrepend(state, act) ==
  IF act.type = "add"
  THEN [selectedTags |-> <<act.payload>> \o state.selectedTags]
  ELSE IF act.type = "remove"
  THEN LET index == indexOf(state.selectedTags, act.payload)
       IN  [selectedTags |->
              slice(state.selectedTags, 0, index)
              \o sliceFrom(state.selectedTags, index + 1)]
  ELSE state

reducer(state, act) ==
  IF act.type = "add"
  THEN [selectedTags |-> state.selectedTags \o <<act.payload>>]
  ELSE IF act.type = "remove"
  THEN LET index == indexOf(state.selectedTags, act.payload)
       IN  [selectedTags |->
              slice(state.selectedTags, 0, index)
              \o sliceFrom(state.selectedTags, index + 1)]
  ELSE state

filterBySelectedTagsAny(state, post) ==
  LET tags == post.node.frontmatter.tags
      selected == state.selectedTags
  IN  IF Len(selected) = 0 THEN TRUE
      ELSE \E k \in 1..Len(selected) : includes(tags, selected[k])

filterBySelectedTags(state, post) ==
  LET tags == post.node.frontmatter.tags
      selected == state.selectedTags
      missing == SelectSeq(selected, LAMBDA sel : ~includes(tags, sel))
  IN  IF Len(selected) = 0 THEN TRUE
      ELSE IF Len(missing) # 0 THEN FALSE
      ELSE TRUE

\* posts.filter(filterBySelectedTags).filter(title.length > 0)
Render(ps, state) ==
  SelectSeq(SelectSeq(ps, LAMBDA post : filterBySelectedTags(state, post)),
            LAMBDA post : post.node.frontmatter.title # "")

\* First render: useReducer(reducer, { selectedTags: [] }).
IndexInit ==
  /\ PlannerInit
  /\ indexPosts \in IndexResults
  /\ selectedTags = <<>>
  /\ action = Undefined
  /\ listed = Render(indexPosts, [selectedTags |-> <<>>])

\* dispatch(action): the reducer runs and the page renders again.
Dispatch ==
  \E a \in Actions :
    LET state == reducer([selectedTags |-> selectedTags], a)
    IN  /\ Len(state.selectedTags) <= MaxSelected
        /\ selectedTags' = state.selectedTags
        /\ action' = a
        /\ listed' = Render(indexPosts, state)
        /\ UNCHANGED <<indexPosts, plannerVars>>

IndexNext == Dispatch

IndexSpec == IndexInit /\ [][IndexNext]_vars

\* ------------------------------------------------- vocabulary of the laws
\* Frontmatter of the entry at (0-based) index k of the query result.
Fm(k) == At(posts, k).node.frontmatter

IsBlog(k) == Fm(k).type = Str("blog")

IsReference(k) == Fm(k).type = Str("reference")

BlogOnly == \A k \in 0..(Len(posts) - 1) : IsBlog(k)

\* The forEach callback has run for the entries 0..Visited-1.
Planning == pc \in {"forEach", "fulfilled"}

Visited == IF Planning THEN i ELSE 0

\* The query result carries errors.
HasErrors == errors # Undefined

\* Entries among 0..k that get a page; the page of a blog / reference
\* entry k is the PageNo(k)-th createPage call.
PagedUpTo(k) == { j \in 0..k : IsBlog(j) \/ IsReference(j) }

PageNo(k) == Cardinality(PagedUpTo(k))

PageOf(k) == pages[PageNo(k)]

\* C1: for a non-empty Blog-only result of N entries, createPages registers
\* exactly N pages, the k-th for the k-th entry, with the entry's path as
\* route (after k iterations exactly k pages, in input order).
C1_OnePagePerBlogEntry ==
  (Planning /\ BlogOnly /\ Len(posts) >= 1) =>
    /\ Len(pages) = Visited
    /\ pc = "fulfilled" => Len(pages) = Len(posts)
    /\ \A k \in 0..(Visited - 1) : pages[k + 1].path = Fm(k).path

C1_Witness ==
  /\ pc = "fulfilled"
  /\ BlogOnly
  /\ Len(posts) = 3
  /\ Fm(0).path = Str("/b")
  /\ Fm(1).path = Str("/a")
  /\ Len(pages) = 3

\* C2: wraparound law. In a Blog-only result of N >= 1 entries the page of
\* index 0 has next = frontmatter of entry N-1 and the page of index N-1
\* has previous = frontmatter of entry 0; for N = 1 both links of the only
\* page are the entry itself.
C2_Wraparound ==
  (Planning /\ BlogOnly /\ Len(posts) >= 1) =>
    /\ Visited >= 1 => pages[1].context.next = Fm(Len(posts) - 1)
    /\ Visited = Len(posts) =>
         pages[Len(posts)].context.previous = Fm(0)
    /\ (Visited = 1 /\ Len(posts) = 1) =>
         /\ pages[1].context.previous = Fm(0)
         /\ pages[1].context.next = Fm(0)

C2_Witness ==
  /\ pc = "fulfilled"
  /\ BlogOnly
  /\ Len(posts) = 3
  /\ Fm(0) # Fm(2)
  /\ Fm(1) # Fm(2)
  /\ Fm(0) # Fm(1)
  /\ pages[1].context.next = Fm(2)
  /\ pages[3].context.previous = Fm(0)

\* C3: adjacency law. In a Blog-only result of N entries, for 0 < k < N-1
\* the page of index k has previous = frontmatter of entry k+1 and
\* next = frontmatter of entry k-1.
C3_Adjacency ==
  (Planning /\ BlogOnly) =>
    \A k \in 1..(Len(posts) - 2) :
      k < Visited =>
        /\ pages[k + 1].context.previous = Fm(k + 1)
        /\ pages[k + 1].context.next = Fm(k - 1)

C3_Witness ==
  /\ pc = "fulfilled"
  /\ BlogOnly
  /\ Len(posts) = 3
  /\ Fm(0).date > Fm(1).date
  /\ Fm(1).date > Fm(2).date
  /\ pages[2].context.previous = Fm(2)
  /\ pages[2].context.next = Fm(0)

\* The result [Blog(A), Reference(B), Blog(C)].
BlogRefBlog ==
  /\ Len(posts) = 3
  /\ IsBlog(0)
  /\ IsReference(1)
  /\ IsBlog(2)

\* C4 as stated: in [Blog(A), Reference(B), Blog(C)] the page of A has
\* previous = C and next = C, the page of C has previous = A and next = A
\* (the Reference entry is nobody's neighbour).
C4_ReferenceNeverNeighbour ==
  (pc = "fulfilled" /\ BlogRefBlog) =>
    /\ pages[1].context.previous = Fm(2)
    /\ pages[1].context.next = Fm(2)
    /\ pages[3].context.previous = Fm(0)
    /\ pages[3].context.next = Fm(0)

\* C4 amended: in [Blog(A), Reference(B), Blog(C)] the neighbours are the
\* positional ones: the page of A has previous = B and next = C, the page
\* of C has previous = A and next = B.
C4_NeighboursByPosition ==
  (pc = "fulfilled" /\ BlogRefBlog) =>
    /\ pages[1].context.previous = Fm(1)
    /\ pages[1].context.next = Fm(2)
    /\ pages[3].context.previous = Fm(0)
    /\ pages[3].context.next = Fm(1)

C4_Witness ==
  /\ pc = "fulfilled"
  /\ BlogRefBlog
  /\ Fm(0) # Fm(2)
  /\ Len(pages) = 3
  /\ pages[1].context.previous.type = Str("reference")
  /\ pages[3].context.next.type = Str("reference")

\* C5: every Reference entry is registered with route "/reference/" +
\* subject, and its page carries no previous / next (no context at all),
\* whatever the other entries are.
C5_ReferenceRouteNoLinks ==
  \A k \in 0..(Visited - 1) :
    IsReference(k) =>
      /\ PageOf(k).path = Str("/reference/" \o ToString(Fm(k).subject))
      /\ Fm(k).subject = Str("js") => PageOf(k).path = Str("/reference/js")
      /\ DOMAIN PageOf(k) = {"path", "subject", "component"}

C5_Witness ==
  /\ pc = "fulfilled"
  /\ Len(posts) = 3
  /\ IsBlog(0)
  /\ IsBlog(1)
  /\ IsReference(2)
  /\ Fm(2).subject = Str("js")
  /\ pages[3].path = Str("/reference/js")

\* C6: if the query reports errors, createPages rejects with those errors
\* and createPage is never called; a settled run has registered the page
\* of every blog / reference entry or no page at all.
C6_ErrorsRejectWithoutPages ==
  /\ HasErrors => (pages = <<>> /\ ~Planning)
  /\ pc = "rejected" => (rejection = errors /\ HasErrors /\ pages = <<>>)
  /\ pc = "fulfilled" =>
       Len(pages) = Cardinality(PagedUpTo(Len(posts) - 1))

C6_Witness ==
  /\ pc = "rejected"
  /\ rejection = Arr(<<"GraphQLError">>)
  /\ Len(posts) = 2
  /\ IsBlog(0)
  /\ IsReference(1)
  /\ pages = <<>>

\* C7: an entry whose type is neither 'blog' nor 'reference' gets no page
\* and raises no error: the run is fulfilled, and the pages are exactly
\* those of the blog / reference entries, in order.
C7_UnknownTypeSkipped ==
  /\ Planning =>
       /\ Len(pages) = Cardinality(PagedUpTo(Visited - 1))
       /\ rejection = Undefined
       /\ \A k \in 0..(Visited - 1) :
            /\ IsBlog(k) => PageOf(k).path = Fm(k).path
            /\ IsReference(k) => PageOf(k).subject = Fm(k).subject
  /\ (pc = "rejected") => HasErrors

C7_Witness ==
  /\ pc = "fulfilled"
  /\ Len(posts) = 3
  /\ IsBlog(0)
  /\ Fm(1).type = Str("draft")
  /\ IsReference(2)
  /\ Len(pages) = 2
  /\ pages[1].path = Fm(0).path
  /\ pages[2].subject = Fm(2).subject

\* C8 as stated: the page of a Reference entry carries the context
\* { subject } with the entry's subject.
C8_ReferenceContextIsSubject ==
  \A k \in 0..(Visited - 1) :
    IsReference(k) =>
      /\ "context" \in DOMAIN PageOf(k)
      /\ PageOf(k).context = [subject |-> Fm(k).subject]

\* C9: the template depends only on the type: every page of a Blog entry
\* uses the blog-post template, every page of a Reference entry the
\* reference-page template.
C9_TemplateByType ==
  \A k \in 0..(Visited - 1) :
    /\ IsBlog(k) =>
         PageOf(k).component = "/site/src/components/blog/blog-post.js"
    /\ IsReference(k) =>
         PageOf(k).component = "/site/src/components/reference-page/index.js"

C9_Witness ==
  /\ pc = "fulfilled"
  /\ Len(posts) = 2
  /\ IsReference(0)
  /\ IsBlog(1)
  /\ pages[1].component # pages[2].component

\* C10: a Blog entry without path or a Reference entry without subject
\* does not make planning fail: its page is registered all the same (the
\* route is undefined, resp. "/reference/undefined"), and every other
\* entry is planned as usual.
C10_MissingFieldsStillPlanned ==
  /\ Planning =>
       /\ rejection = Undefined
       /\ Len(pages) = Cardinality(PagedUpTo(Visited - 1))
       /\ \A k \in 0..(Visited - 1) :
            /\ (IsBlog(k) /\ Fm(k).path = Undefined) =>
                 PageOf(k).path = Undefined
            /\ (IsReference(k) /\ Fm(k).subject = Undefined) =>
                 PageOf(k).path = Str("/reference/undefined")
            /\ (IsBlog(k) /\ Fm(k).path # Undefined) =>
                 PageOf(k).path = Fm(k).path
            /\ (IsReference(k) /\ Fm(k).subject = Str("js")) =>
                 PageOf(k).path = Str("/reference/js")
  /\ (pc = "resolved" /\ ~HasErrors) => ENABLED ThenForEach
  /\ (pc = "forEach") => ENABLED (ForEachStep \/ ForEachDone)

C10_Witness ==
  /\ pc = "fulfilled"
  /\ Len(posts) = 3
  /\ IsReference(0)
  /\ Fm(0).subject = Undefined
  /\ IsBlog(1)
  /\ Fm(1).path = Undefined
  /\ IsBlog(2)
  /\ Fm(2).path = Str("/a")
  /\ Len(pages) = 3
  /\ pages[1].path = Str("/reference/undefined")
  /\ pages[3].path = Str("/a")

\* Positional neighbours of index k in a result of N entries.
After(k) == IF k < Len(posts) - 1 THEN k + 1 ELSE 0

Before(k) == IF k > 0 THEN k - 1 ELSE Len(posts) - 1

\* C11: in a result of mixed types the neighbours of a Blog entry at index
\* k are the entries at the adjacent positions of the full result
\* (previous = index k+1, or 0 for the last; next = index k-1, or N-1 for
\* the first), whatever their type; nothing is filtered out before.
C11_NeighboursOfFullSequence ==
  \A k \in 0..(Visited - 1) :
    IsBlog(k) =>
      /\ PageOf(k).context.previous = Fm(After(k))
      /\ PageOf(k).context.next = Fm(Before(k))

C11_Witness ==
  /\ pc = "fulfilled"
  /\ Len(posts) = 3
  /\ Fm(0).type = Str("draft")
  /\ IsBlog(1)
  /\ IsReference(2)
  /\ pages[1].context.previous.type = Str("reference")
  /\ pages[1].context.next.type = Str("draft")

\* C12: for entries of any types in any date order, createPage is called
\* exactly once for each Blog or Reference entry and for no other entry,
\* in input order; the entries are never reordered and an order that is
\* not date-descending raises no error.
C12_Registered ==
  /\ Planning =>
       /\ Len(pages) = Cardinality(PagedUpTo(Visited - 1))
       /\ rejection = Undefined
       /\ \A k \in 0..(Visited - 1) :
            /\ IsBlog(k) =>
                 /\ PageOf(k).path = Fm(k).path
                 /\ PageOf(k).context.previous = Fm(After(k))
            /\ IsReference(k) =>
                 /\ PageOf(k).subject = Fm(k).subject
                 /\ "context" \notin DOMAIN PageOf(k)
  /\ pc = "rejected" => HasErrors
  /\ (pc = "resolved" /\ ~HasErrors) => ENABLED ThenForEach

C12_OncePerEntryInInputOrder ==
  /\ []C12_Registered
  /\ [][pc # "pending" => posts' = posts]_vars

C12_Witness ==
  /\ pc = "fulfilled"
  /\ Len(posts) = 3
  /\ IsReference(0)
  /\ Fm(1).type = Str("draft")
  /\ IsBlog(2)
  /\ Fm(0).date < Fm(1).date
  /\ Fm(1).date < Fm(2).date
  /\ Len(pages) = 2
  /\ pages[1].subject = Fm(0).subject
  /\ pages[2].path = Fm(2).path

\* The entries of the result are pairwise different, so a link (a
\* frontmatter) determines the entry it leads to.
Distinct ==
  \A j, k \in 0..(Len(posts) - 1) : j # k => Fm(j) # Fm(k)

Target(fm) == CHOOSE j \in 0..(Len(posts) - 1) : Fm(j) = fm

PrevIdx(k) == Target(pages[k + 1].context.previous)

NextIdx(k) == Target(pages[k + 1].context.next)

RECURSIVE FollowPrevious(_, _)
FollowPrevious(k, n) ==
  IF n = 0 THEN k ELSE FollowPrevious(PrevIdx(k), n - 1)

\* C13: in a Blog-only result of N entries previous / next navigation is
\* cyclic and the links are mutually inverse: the next of the entry
\* reached by previous from k is entry k (and conversely), and following
\* previous N times from any entry visits every entry once and returns.
C13_CyclicInverseLinks ==
  (pc = "fulfilled" /\ BlogOnly /\ Len(posts) >= 1) =>
    LET N == Len(posts)
    IN  /\ \A k \in 0..(N - 1) :
             /\ pages[After(k) + 1].context.next = Fm(k)
             /\ pages[Before(k) + 1].context.previous = Fm(k)
        /\ Distinct =>
             \A k \in 0..(N - 1) :
               /\ NextIdx(PrevIdx(k)) = k
               /\ PrevIdx(NextIdx(k)) = k
               /\ { FollowPrevious(k, n) : n \in 0..(N - 1) } = 0..(N - 1)
               /\ FollowPrevious(k, N) = k

C13_Witness ==
  /\ pc = "fulfilled"
  /\ BlogOnly
  /\ Len(posts) = 3
  /\ Distinct
  /\ FollowPrevious(0, 1) = 1
  /\ FollowPrevious(0, 2) = 2
  /\ FollowPrevious(0, 3) = 0

\* C14: no page is registered before the query has resolved, and the
\* registrations are made in one uninterrupted pass of the callback:
\* pages only grows in a forEach step, and while the pass runs nothing
\* but its own next step happens.
C14_NoPageBeforeResult ==
  pc \in {"pending", "resolved", "rejected"} => pages = <<>>

C15_InputUnchanged ==
  [][pc # "pending" => (posts' = posts /\ errors' = errors)]_vars

C15_Witness ==
  /\ pc = "fulfilled"
  /\ Len(posts) = 3
  /\ IsBlog(0)
  /\ IsReference(1)
  /\ IsBlog(2)
  /\ Len(pages) = 3

\* ------------------------------------------------ laws of the index page
Range(arr) == { arr[k] : k \in 1..Len(arr) }

\* The step is a dispatch of an action of the given type.
Dispatched(type) == action' # Undefined /\ action'.type = type

RECURSIVE WithoutFirst(_, _)
WithoutFirst(arr, x) ==
  IF arr = <<>> THEN <<>>
  ELSE IF Head(arr) = x THEN Tail(arr)
  ELSE <<Head(arr)>> \o WithoutFirst(Tail(arr), x)

\* C16 as stated: dispatching 'remove' with a tag that is not in
\* selectedTags leaves selectedTags unchanged, after any sequence of 'add'
\* and 'remove' actions.
C16_RemoveAbsentKeepsSelection ==
  [][(Dispatched("remove") /\ action'.payload \notin Range(selectedTags))
       => selectedTags' = selectedTags]_vars

\* C17: 'remove' of a selected tag removes exactly its first occurrence and
\* keeps the other tags in order (one element fewer); 'add' appends the tag
\* at the end; any other action type leaves the state unchanged.
C17_ReducerCases ==
  [][/\ (Dispatched("remove") /\ action'.payload \in Range(selectedTags))
          => /\ selectedTags' = WithoutFirst(selectedTags, action'.payload)
             /\ Len(selectedTags') = Len(selectedTags) - 1
     /\ Dispatched("add")
          => selectedTags' = Append(selectedTags, action'.payload)
     /\ Dispatched("reset") => selectedTags' = selectedTags]_vars

C17_Witness ==
  /\ action = [type |-> "remove", payload |-> "js"]
  /\ selectedTags = <<"react", "js">>

\* Every selected tag is among the post's tags.
HasAllSelected(post) ==
  \A t \in Range(selectedTags) : t \in Range(post.node.frontmatter.tags)

\* C18: a post is listed iff its title is non-empty and every selected tag
\* is among its tags; with no tag selected every post with a non-empty
\* title is listed; the listed posts keep the order of the query result.
C18_ListedPosts ==
  /\ listed = SelectSeq(indexPosts,
                LAMBDA post : post.node.frontmatter.title # ""
                              /\ HasAllSelected(post))
  /\ selectedTags = <<>> =>
       listed = SelectSeq(indexPosts,
                  LAMBDA post : post.node.frontmatter.title # "")

C18_Witness ==
  /\ selectedTags = <<"js", "react">>
  /\ Len(indexPosts) = 2
  /\ indexPosts[1].node.frontmatter = [title |-> "Hello", tags |-> <<"js">>]
  /\ indexPosts[2].node.frontmatter =
       [title |-> "Hello", tags |-> <<"js", "react">>]
  /\ listed = <<indexPosts[2]>>

====
